---- MODULE Spec2Model ----
(***************************************************************************)
(* The store exposure policy of the search tab when the pickup filter is   *)
(* off ("픽업필터 off일시"), as the repository's policy document states it:  *)
(* the exposure conditions (displayable), the operating conditions         *)
(* (finalOperation), the OD service-area conditions and the exposure of    *)
(* the re-ranking result from rank 1 to rank 25.                           *)
(***************************************************************************)
EXTENDS Integers, Sequences, FiniteSets, TLC

VARIABLES
    store,       \* the store snapshot the next evaluation reads
    filterMode,  \* the pickup filter of the search screen
    now,         \* the instant of the request
    env,         \* the requesting context
    calls,       \* the evaluations of the store made so far, oldest first
    candidates,  \* the re-ranking feed's candidates of a search request
    responses,   \* the search results returned for the request
    created,     \* the resources of the stack the deployment has created
    running      \* the candidates whose evaluation has started and not completed

vars == <<store, filterMode, now, env, calls, candidates, responses, created, running>>

----
\* Bounds of the model.

\* At most this many of the four delivery channels are ongoing in one store.
MaxAllowedChannels == 1
\* Instants are 0..MaxTime.
MaxTime == 4
\* Dispatch-center identifiers are 1..MaxCenter.
MaxCenter == 2
\* Distances range from DeliveryRadius - MaxOver to DeliveryRadius + MaxOver.
MaxOver == 1

----
\* The data of the policy.

FilterModes == {"PICKUP_OFF", "PICKUP_ON"}

Statuses == {"OPEN", "CLOSED"}

\* 배민1플러스 / 오픈리스트 / 울트라콜 / 파워콜
AllowedChannels == {"BAEMIN_ONE_PLUS", "OPEN_LIST", "ULTRA_CALL", "POWER_CALL"}

\* A channel tag that is none of the four.
OtherChannels == {"OTHER_CHANNEL"}

ChannelModes == {"OD_ONLY", "MP_ONLY", "OD_AND_MP"}

\* isUseSmartmenu may be absent from a store snapshot.
SmartmenuValues == {"TRUE", "FALSE", "ABSENT"}

\* 한집 배달반경(4km)
DeliveryRadius == 4

ChannelSets ==
    {a \cup o : a \in {s \in SUBSET AllowedChannels : Cardinality(s) <= MaxAllowedChannels},
                o \in SUBSET OtherChannels}

Times == 0..MaxTime

\* An operation time opens and closes strictly inside the modelled instants.
OperationTimes ==
    {op \in [open : 1..(MaxTime - 1), close : 1..(MaxTime - 1)] : op.open < op.close}

Centers == 1..MaxCenter

Distances == (DeliveryRadius - MaxOver)..(DeliveryRadius + MaxOver)

\* What the policy text leaves open is fixed per deployment and not by the
\* model: whether the opening and the closing instant belong to the operation
\* time, whether the radius itself is inside the radius, and whether the OD
\* conditions are applied to a store that is both OD and MP.
Envs ==
    [centerId : {1}, openEdge : BOOLEAN, closeEdge : BOOLEAN,
     radiusEdge : BOOLEAN, gateOdAndMp : BOOLEAN]

----
\* The exposure conditions (displayable: true).

\* Mutant: the status is not looked at.
statusAny(s) == s.status \in Statuses

\* status: open
statusOpen(s) == s.status = "OPEN"

\* Mutant: any ongoing channel counts.
ongoingAny(s) == s.ongoingChannels # {}

\* ongoing: one of the four channels must be there
ongoingOk(s) == s.ongoingChannels \cap AllowedChannels # {}

\* Mutant: baropay is not looked at.
baropayIgnored(s) == TRUE

\* Mutant: baropay is required of every store but OD + MP.
baropayRequiredOfMp(s) == s.channelMode = "OD_AND_MP" \/ s.baropay

\* Mutant: baropay is required of every store but MP only.
baropayRequiredOfOdAndMp(s) == s.channelMode = "MP_ONLY" \/ s.baropay

\* baropay: OD only is exposed only when baropay is true; MP only is exposed
\* whatever baropay is; OD + MP is not filtered by baropay.
baropayOk(s) ==
    CASE s.channelMode = "OD_ONLY" -> s.baropay
      [] s.channelMode = "MP_ONLY" -> TRUE
      [] s.channelMode = "OD_AND_MP" -> TRUE

\* The user's location is inside the single-zone delivery radius.
withinRadius(s, e) ==
    \/ s.distance < DeliveryRadius
    \/ s.distance = DeliveryRadius /\ e.radiusEdge

\* Mutant: the OD conditions are applied to every store.
isOdStoreAlways(s, e) == TRUE

\* The stores the OD conditions are applied to.
isOdStore(s, e) ==
    \/ s.channelMode = "OD_ONLY"
    \/ s.channelMode = "OD_AND_MP" /\ e.gateOdAndMp

\* Mutant: the radius is not looked at.
serviceAreaNoRadius(s, e) == s.serviceable /\ s.centerId = e.centerId

\* The OD conditions: serviceable, the center id matches, inside the radius.
serviceAreaOk(s, e) ==
    /\ s.serviceable
    /\ s.centerId = e.centerId
    /\ withinRadius(s, e)

\* With the pickup filter on the exposure is decided by the pickup policy,
\* which the snapshot carries as its outcome.
pickupDisplayable(s) == s.pickupExposure

\* Mutant: a store must use the smart menu to be exposed.
displayableWithSmartmenu(s, mode, e) ==
    IF mode = "PICKUP_OFF"
    THEN /\ statusOpen(s)
         /\ ongoingOk(s)
         /\ baropayOk(s)
         /\ isOdStore(s, e) => serviceAreaOk(s, e)
         /\ s.isUseSmartmenu = "TRUE"
    ELSE pickupDisplayable(s)

\* Mutant: a store whose baropayLive is false is hidden.
displayableOnlyLive(s, mode, e) ==
    IF mode = "PICKUP_OFF"
    THEN /\ statusOpen(s)
         /\ ongoingOk(s)
         /\ baropayOk(s)
         /\ isOdStore(s, e) => serviceAreaOk(s, e)
         /\ s.baropayLive
    ELSE pickupDisplayable(s)

\* isUseSmartmenu is not part of the filtering policy.
displayable(s, mode, e) ==
    IF mode = "PICKUP_OFF"
    THEN /\ statusOpen(s)
         /\ ongoingOk(s)
         /\ baropayOk(s)
         /\ isOdStore(s, e) => serviceAreaOk(s, e)
    ELSE pickupDisplayable(s)

----
\* The operating conditions (finalOperation: true).

\* The instant is inside the store's operation time.
withinOperationTime(t, op, e) ==
    \/ op.open < t /\ t < op.close
    \/ t = op.open /\ e.openEdge
    \/ t = op.close /\ e.closeEdge

\* Mutant: a store inside its operation time is operating.
finalOperationNoLive(s, t, e) == withinOperationTime(t, s.operationTime, e)

\* baropayLive: true, and inside operationTime
finalOperation(s, t, e) ==
    /\ s.baropayLive
    /\ withinOperationTime(t, s.operationTime, e)

evaluate(s, mode, t, e) ==
    [displayable |-> displayable(s, mode, e),
     finalOperation |-> finalOperation(s, t, e)]

----
\* Validation of the store snapshot.  A snapshot lists in `missing` the
\* required fields it came without; what it holds under such a field is the
\* value a reader that defaults would see.

RequiredFields == {"channelMode", "ongoingChannels", "operationTime"}

wellFormed(s) == s.missing = {}

\* The missing field an error names: the first one in the order of the checks.
missingField(s) ==
    IF "channelMode" \in s.missing THEN "channelMode"
    ELSE IF "ongoingChannels" \in s.missing THEN "ongoingChannels"
    ELSE "operationTime"

validationError(s) == [error |-> "ValidationError", field |-> missingField(s)]

\* Mutant: a snapshot without operationTime is evaluated on the default.
evaluateDefaultingTime(s, mode, t, e) ==
    IF s.missing \subseteq {"operationTime"}
    THEN evaluate(s, mode, t, e)
    ELSE validationError(s)

\* The evaluation of a snapshot fails fast on a missing required field.
evaluateValidated(s, mode, t, e) ==
    IF wellFormed(s) THEN evaluate(s, mode, t, e) ELSE validationError(s)

----
\* One store: the snapshot is evaluated, a field of it is set to another
\* value (the steps of the test scenarios) and it is evaluated again.

\* The snapshots of one store, by its baropayLive values and operation times.
StoreRecords(lives, ops) ==
    [storeId : {1}, status : Statuses, ongoingChannels : ChannelSets,
     channelMode : ChannelModes, baropay : BOOLEAN, baropayLive : lives,
     operationTime : ops, isUseSmartmenu : SmartmenuValues,
     serviceable : BOOLEAN, centerId : Centers, distance : Distances,
     rankScore : {0}, pickupExposure : BOOLEAN, cpcAd : {FALSE},
     missing : {{}}]

Last(q) == q[Len(q)]

\* A scenario sets one field between its two evaluations.
Settable == Len(calls) = 1 /\ Last(calls).store = store /\ Last(calls).now = now

\* The search evaluates the snapshot of the store.
Evaluate ==
    /\ IF calls = <<>> THEN TRUE
       ELSE Last(calls).store # store \/ Last(calls).now # now
    /\ calls' = Append(calls,
                    [store |-> store, now |-> now,
                     result |-> evaluateValidated(store, filterMode, now, env)])
    /\ UNCHANGED <<store, filterMode, now, env, candidates, responses, created, running>>

\* "테스트 가게의 baropay 값을 true / false 로 설정"
SetBaropay(b) ==
    /\ Settable
    /\ b # store.baropay
    /\ store' = [store EXCEPT !.baropay = b]
    /\ UNCHANGED <<filterMode, now, env, calls, candidates, responses, created, running>>

\* The store starts or stops using the smart menu, or the field goes away.
SetSmartmenu(v) ==
    /\ Settable
    /\ v # store.isUseSmartmenu
    /\ store' = [store EXCEPT !.isUseSmartmenu = v]
    /\ UNCHANGED <<filterMode, now, env, calls, candidates, responses, created, running>>

\* The exposure conditions over every snapshot, at an instant inside the
\* operation time of a store whose baropayLive is true.
Init ==
    /\ store \in StoreRecords({TRUE}, {[open |-> 1, close |-> MaxTime - 1]})
    /\ filterMode \in FilterModes
    /\ filterMode = "PICKUP_OFF" => ~store.pickupExposure
    /\ now = 2
    /\ env \in {e \in Envs : e.openEdge /\ e.closeEdge}
    /\ calls = <<>>
    /\ candidates = <<>>
    /\ responses = <<>>
    /\ created = {}
    /\ running = {}

Next ==
    \/ Evaluate
    \/ \E b \in BOOLEAN : SetBaropay(b)
    \/ \E v \in SmartmenuValues : SetSmartmenu(v)

Spec == Init /\ [][Next]_vars

\* The operating conditions over every instant and operation time, for the
\* store of the test case (ongoing: 파워콜) inside its service area.
InitOperation ==
    /\ store \in {s \in StoreRecords(BOOLEAN, OperationTimes) :
                     /\ s.ongoingChannels = {"POWER_CALL"}
                     /\ s.isUseSmartmenu = "ABSENT"
                     /\ s.serviceable
                     /\ s.centerId = 1
                     /\ s.distance < DeliveryRadius}
    /\ filterMode \in FilterModes
    /\ filterMode = "PICKUP_OFF" => ~store.pickupExposure
    /\ now \in Times
    /\ env \in {e \in Envs : e.radiusEdge /\ e.gateOdAndMp}
    /\ calls = <<>>
    /\ candidates = <<>>
    /\ responses = <<>>
    /\ created = {}
    /\ running = {}

\* "테스트 가게의 baropayLive 값을 true / false 로 설정"
SetBaropayLive(b) ==
    /\ Settable
    /\ b # store.baropayLive
    /\ store' = [store EXCEPT !.baropayLive = b]
    /\ UNCHANGED <<filterMode, now, env, calls, candidates, responses, created, running>>

\* The store changes its operation time.
SetOperationTime(op) ==
    /\ Settable
    /\ op # store.operationTime
    /\ store' = [store EXCEPT !.operationTime = op]
    /\ UNCHANGED <<filterMode, now, env, calls, candidates, responses, created, running>>

\* "현재 시간이 operationTime 내에 / 외에 있도록 설정"
SetNow(t) ==
    /\ Settable
    /\ t # now
    /\ now' = t
    /\ UNCHANGED <<store, filterMode, env, calls, candidates, responses, created, running>>

NextOperation ==
    \/ Evaluate
    \/ \E b \in BOOLEAN : SetBaropayLive(b)
    \/ \E op \in OperationTimes : SetOperationTime(op)
    \/ \E t \in Times : SetNow(t)

SpecOperation == InitOperation /\ [][NextOperation]_vars

\* "테스트 가게의 serviceable 값을 true / false 로 설정"
SetServiceable(b) ==
    /\ Settable
    /\ b # store.serviceable
    /\ store' = [store EXCEPT !.serviceable = b]
    /\ UNCHANGED <<filterMode, now, env, calls, candidates, responses, created, running>>

\* "센터ID가 일치하도록 / 일치하지 않도록 설정"
SetCenter(c) ==
    /\ Settable
    /\ c # store.centerId
    /\ store' = [store EXCEPT !.centerId = c]
    /\ UNCHANGED <<filterMode, now, env, calls, candidates, responses, created, running>>

\* "사용자 위치를 한집 배달반경(4km) 내에 / 밖에 설정"
SetDistance(d) ==
    /\ Settable
    /\ d # store.distance
    /\ store' = [store EXCEPT !.distance = d]
    /\ UNCHANGED <<filterMode, now, env, calls, candidates, responses, created, running>>

\* The OD conditions over the stores of every channel mode, operating.
InitServiceArea ==
    /\ store \in {s \in StoreRecords({TRUE}, {[open |-> 1, close |-> MaxTime - 1]}) :
                     /\ s.ongoingChannels \in {{}, {"ULTRA_CALL"}}
                     /\ s.isUseSmartmenu = "ABSENT"}
    /\ filterMode \in FilterModes
    /\ filterMode = "PICKUP_OFF" => ~store.pickupExposure
    /\ now = 2
    /\ env \in {e \in Envs : e.openEdge /\ e.closeEdge}
    /\ calls = <<>>
    /\ candidates = <<>>
    /\ responses = <<>>
    /\ created = {}
    /\ running = {}

NextServiceArea ==
    \/ Evaluate
    \/ \E b \in BOOLEAN : SetServiceable(b)
    \/ \E c \in Centers : SetCenter(c)
    \/ \E d \in Distances : SetDistance(d)

SpecServiceArea == InitServiceArea /\ [][NextServiceArea]_vars

\* Snapshots that came without some of the required fields, and complete ones.
InitValidation ==
    /\ store \in {[s EXCEPT !.missing = ms] :
                     s \in {x \in StoreRecords(BOOLEAN, {[open |-> 1, close |-> MaxTime - 1]}) :
                               /\ x.status = "OPEN"
                               /\ x.ongoingChannels \in {{}, {"ULTRA_CALL"}}
                               /\ x.isUseSmartmenu = "ABSENT"
                               /\ x.serviceable
                               /\ x.centerId = 1
                               /\ x.distance < DeliveryRadius},
                     ms \in SUBSET RequiredFields}
    /\ filterMode \in FilterModes
    /\ filterMode = "PICKUP_OFF" => ~store.pickupExposure
    /\ now \in Times
    /\ env \in {e \in Envs : e.openEdge /\ e.closeEdge /\ e.radiusEdge /\ e.gateOdAndMp}
    /\ calls = <<>>
    /\ candidates = <<>>
    /\ responses = <<>>
    /\ created = {}
    /\ running = {}

SpecValidation == InitValidation /\ [][Next]_vars

----
\* The search request: the candidates of the re-ranking feed are evaluated,
\* ranked by rankScore and exposed from rank 1 to rank 25.

\* 추천리랭킹결과가 1위~25위 노출됨
RankLimit == 25

\* Mutant: a candidate is placed ahead of the earlier ones of its score.
insertAheadOfEqual(cs, order, k) ==
    LET ahead == Cardinality({j \in 1..Len(order) : cs[order[j]].rankScore > cs[k].rankScore})
    IN  SubSeq(order, 1, ahead) \o <<k>> \o SubSeq(order, ahead + 1, Len(order))

\* The place of candidate k among the candidates before it, already in
\* descending rankScore: behind every one whose score is not lower.
insertByScore(cs, order, k) ==
    LET ahead == Cardinality({j \in 1..Len(order) : cs[order[j]].rankScore >= cs[k].rankScore})
    IN  SubSeq(order, 1, ahead) \o <<k>> \o SubSeq(order, ahead + 1, Len(order))

\* The first k candidates in descending rankScore, equal scores in the order
\* of arrival.
RECURSIVE sortByRankScore(_, _)
sortByRankScore(cs, k) ==
    IF k = 0 THEN <<>> ELSE insertByScore(cs, sortByRankScore(cs, k - 1), k)

\* Mutant: the rank counts the displayable candidates only.
rankedAmongDisplayable(cs, mode, t, e) ==
    LET order == sortByRankScore(cs, Len(cs))
        shown(r) == evaluate(cs[order[r]], mode, t, e).displayable
    IN  [r \in 1..Len(cs) |->
            LET res == evaluate(cs[order[r]], mode, t, e)
            IN  [storeId |-> cs[order[r]].storeId,
                 displayable |-> res.displayable,
                 finalOperation |-> res.finalOperation,
                 rank |-> Cardinality({q \in 1..r : shown(q)})
                            + (IF shown(r) THEN 0 ELSE 1)]]

\* Every candidate with its evaluation and its rank, in rank order.
ranked(cs, mode, t, e) ==
    LET order == sortByRankScore(cs, Len(cs))
    IN  [r \in 1..Len(cs) |->
            LET res == evaluate(cs[order[r]], mode, t, e)
            IN  [storeId |-> cs[order[r]].storeId,
                 displayable |-> res.displayable,
                 finalOperation |-> res.finalOperation,
                 rank |-> r]]

\* Mutant: rank 26 is exposed too.
retainedOffByOne(x) == x.displayable /\ x.rank <= RankLimit + 1

\* 1위~25위까지의 가게만 노출됨, 26위 이상의 가게는 노출되지 않음
retained(x) == x.displayable /\ x.rank <= RankLimit

RECURSIVE selectRetained(_)
selectRetained(q) ==
    IF q = <<>> THEN <<>>
    ELSE (IF retained(q[1]) THEN <<q[1]>> ELSE <<>>) \o selectRetained(Tail(q))

\* The candidates of a batch that pass the validation, in input order.
wellFormedCandidates(cs) == SelectSeq(cs, wellFormed)

\* One error for each candidate that fails the validation, in input order.
candidateErrors(cs) ==
    LET malformed(c) == ~wellFormed(c)
        bad == SelectSeq(cs, malformed)
    IN  [k \in 1..Len(bad) |->
            [storeId |-> bad[k].storeId,
             error |-> validationError(bad[k]).error,
             field |-> validationError(bad[k]).field]]

\* Mutant: a malformed candidate is left out of the result but keeps the
\* rank its defaulted fields give it.
evaluateAndRankKeepingRanks(cs, mode, t, e) ==
    LET valid(x) == \E i \in DOMAIN cs : cs[i].storeId = x.storeId /\ wellFormed(cs[i])
    IN  SelectSeq(selectRetained(ranked(cs, mode, t, e)), valid)

\* The exposed stores of a batch: the well-formed candidates are ranked and
\* the displayable ones of the first 25 ranks are retained.
evaluateAndRank(cs, mode, t, e) ==
    selectRetained(ranked(wellFormedCandidates(cs), mode, t, e))

\* Mutant: the CPC ads are exposed whatever the pickup filter is.
cpcAdsAnyMode(cs, entries, mode) ==
    LET hasAd(x) == \E i \in DOMAIN cs : cs[i].storeId = x.storeId /\ cs[i].cpcAd
        ads == SelectSeq(entries, hasAd)
    IN  [k \in 1..Len(ads) |-> ads[k].storeId]

\* The CPC ads of the search result: those of the exposed stores that have a
\* CPC ad set when the pickup filter is off, none when it is on.
cpcAds(cs, entries, mode) ==
    IF mode = "PICKUP_OFF"
    THEN LET hasAd(x) == \E i \in DOMAIN cs : cs[i].storeId = x.storeId /\ cs[i].cpcAd
             ads == SelectSeq(entries, hasAd)
         IN  [k \in 1..Len(ads) |-> ads[k].storeId]
    ELSE <<>>

\* The search result of a request.
response(cs, mode, t, e) ==
    LET entries == evaluateAndRank(cs, mode, t, e)
    IN  [filterMode |-> mode,
         entries |-> entries,
         cpcAds |-> cpcAds(cs, entries, mode),
         errors |-> candidateErrors(cs)]

\* The feeds of the requests: n candidates, candidate i with the score
\* (i * mult) % modulus, hidden (status closed, no pickup exposure) when i is a
\* multiple of a period that is not 0; every third store has a CPC ad set.
MaxCandidates == 30
MaxMultiplier == 3
MaxHidePeriod == 3

ScoreModuli == {7, 37}

feedStore(i, mult, modulus, period) ==
    LET hidden == period > 0 /\ i % period = 0
    IN  [storeId |-> i,
         status |-> IF hidden THEN "CLOSED" ELSE "OPEN",
         ongoingChannels |-> {"ULTRA_CALL"},
         channelMode |-> "MP_ONLY",
         baropay |-> TRUE,
         baropayLive |-> i % 2 = 0,
         operationTime |-> [open |-> 1, close |-> MaxTime - 1],
         isUseSmartmenu |-> "ABSENT",
         serviceable |-> TRUE,
         centerId |-> 1,
         distance |-> DeliveryRadius - MaxOver,
         rankScore |-> (i * mult) % modulus,
         pickupExposure |-> ~hidden,
         cpcAd |-> i % 3 = 1,
         missing |-> {}]

Feeds ==
    {[i \in 1..n |-> feedStore(i, mult, modulus, period)] :
        n \in 0..MaxCandidates, mult \in 1..MaxMultiplier,
        modulus \in ScoreModuli, period \in 0..MaxHidePeriod}

InitRank ==
    /\ candidates \in Feeds
    /\ filterMode \in FilterModes
    /\ now = 2
    /\ env \in {e \in Envs : e.openEdge /\ e.closeEdge /\ e.radiusEdge /\ e.gateOdAndMp}
    /\ store = feedStore(1, 1, 7, 0)
    /\ calls = <<>>
    /\ responses = <<>>
    /\ created = {}
    /\ running = {}

\* The search serves the request under the pickup filter as it is set.
EvaluateAndRank ==
    /\ IF responses = <<>> THEN TRUE
       ELSE Len(responses) < 2 /\ Last(responses).filterMode # filterMode
    /\ responses' = Append(responses, response(candidates, filterMode, now, env))
    /\ UNCHANGED <<store, filterMode, now, env, calls, candidates, created, running>>

\* "검색 화면에서 픽업필터를 on / off 로 설정"
SetFilter(mode) ==
    /\ Len(responses) = 1
    /\ responses[1].filterMode = filterMode
    /\ mode # filterMode
    /\ filterMode' = mode
    /\ UNCHANGED <<store, now, env, calls, candidates, responses, created, running>>

NextRank ==
    \/ EvaluateAndRank
    \/ \E mode \in FilterModes : SetFilter(mode)

SpecRank == InitRank /\ [][NextRank]_vars

\* The feeds with malformed candidates: candidate i of a feed came without
\* some required fields when bad is not 0 and i % (bad + 1) = 1.
MaxMalformedPeriod == 7

missingOf(i) ==
    IF i % 3 = 0 THEN {"channelMode"}
    ELSE IF i % 3 = 1 THEN {"ongoingChannels", "operationTime"}
    ELSE {"operationTime"}

batchStore(i, mult, modulus, period, bad) ==
    [feedStore(i, mult, modulus, period) EXCEPT
        !.missing = IF bad > 0 /\ i % (bad + 1) = 1 THEN missingOf(i) ELSE {}]

BatchFeeds ==
    {[i \in 1..n |-> batchStore(i, mult, modulus, period, bad)] :
        n \in 0..MaxCandidates, mult \in 1..MaxMultiplier,
        modulus \in ScoreModuli, period \in {0, MaxHidePeriod},
        bad \in 0..MaxMalformedPeriod}

InitBatch ==
    /\ candidates \in BatchFeeds
    /\ filterMode \in FilterModes
    /\ now = 2
    /\ env \in {e \in Envs : e.openEdge /\ e.closeEdge /\ e.radiusEdge /\ e.gateOdAndMp}
    /\ store = feedStore(1, 1, 7, 0)
    /\ calls = <<>>
    /\ responses = <<>>
    /\ created = {}
    /\ running = {}

SpecBatch == InitBatch /\ [][NextRank]_vars

----
\* The concurrent evaluation of a batch.  Every candidate is evaluated by a
\* task of its own that starts and completes at any moment; a completed task
\* adds its result to the log of completions.  When every task has completed
\* the single sort-and-cap pass makes the result.

MaxConcurrent == 4

ConcurrentModuli == {2, 3}

ConcurrentFeeds ==
    {[i \in 1..n |-> batchStore(i, 1, modulus, period, bad)] :
        n \in 0..MaxConcurrent, modulus \in ConcurrentModuli,
        period \in {0, MaxHidePeriod}, bad \in 0..1}

Completed == {calls[k].store.storeId : k \in DOMAIN calls}

\* Mutant: the pass takes the evaluations in their order of completion.
collectedAsCompleted(cs, log) == log

\* The evaluations of the candidates, each in the place of its candidate in
\* the input.
collected(cs, log) ==
    [i \in 1..Len(cs) |->
        log[CHOOSE k \in DOMAIN log : log[k].store.storeId = cs[i].storeId]]

\* The sort-and-cap pass over the evaluated candidates: those with a result
\* are sorted by rankScore, ranked, and the displayable ones of the first 25
\* ranks retained; the others give the errors.
sortAndCap(evaluated, mode) ==
    LET hasResult(x) == "displayable" \in DOMAIN x.result
        hasError(x) == "error" \in DOMAIN x.result
        ok == SelectSeq(evaluated, hasResult)
        bad == SelectSeq(evaluated, hasError)
        stores == [k \in 1..Len(ok) |-> ok[k].store]
        order == sortByRankScore(stores, Len(ok))
        entries == selectRetained(
                       [r \in 1..Len(ok) |->
                           [storeId |-> ok[order[r]].store.storeId,
                            displayable |-> ok[order[r]].result.displayable,
                            finalOperation |-> ok[order[r]].result.finalOperation,
                            rank |-> r]])
    IN  [filterMode |-> mode,
         entries |-> entries,
         cpcAds |-> cpcAds(stores, entries, mode),
         errors |-> [k \in 1..Len(bad) |->
                        [storeId |-> bad[k].store.storeId,
                         error |-> bad[k].result.error,
                         field |-> bad[k].result.field]]]

InitConcurrent ==
    /\ candidates \in ConcurrentFeeds
    /\ filterMode \in FilterModes
    /\ now = 2
    /\ env \in {e \in Envs : e.openEdge /\ e.closeEdge /\ e.radiusEdge /\ e.gateOdAndMp}
    /\ store = feedStore(1, 1, 7, 0)
    /\ calls = <<>>
    /\ responses = <<>>
    /\ created = {}
    /\ running = {}

\* The task of candidate i starts: it takes its own arguments.
StartEvaluation(i) ==
    /\ i \notin running
    /\ candidates[i].storeId \notin Completed
    /\ running' = running \cup {i}
    /\ UNCHANGED <<store, filterMode, now, env, calls, candidates, responses, created>>

\* The task of candidate i completes with the evaluation of its candidate.
CompleteEvaluation(i) ==
    /\ i \in running
    /\ running' = running \ {i}
    /\ calls' = Append(calls,
                    [store |-> candidates[i], now |-> now,
                     result |-> evaluateValidated(candidates[i], filterMode, now, env)])
    /\ UNCHANGED <<store, filterMode, now, env, candidates, responses, created>>

\* Every task has completed: the sort-and-cap pass makes the result.
SortAndCap ==
    /\ responses = <<>>
    /\ running = {}
    /\ Len(calls) = Len(candidates)
    /\ responses' = <<sortAndCap(collected(candidates, calls), filterMode)>>
    /\ UNCHANGED <<store, filterMode, now, env, calls, candidates, created, running>>

NextConcurrent ==
    \/ \E i \in DOMAIN candidates : StartEvaluation(i)
    \/ \E i \in DOMAIN candidates : CompleteEvaluation(i)
    \/ SortAndCap

SpecConcurrent == InitConcurrent /\ [][NextConcurrent]_vars

----
\* The deployment of CdkWooProjectStack.  The stack declares its resources
\* and what each depends on: what it refers to, and what addDependency names.
\* The deployment creates a resource once everything it depends on is there,
\* in any order that allows.  The inline policies attached to a role are
\* taken together as one resource.

Resources ==
    {"s3Bucket", "distribution_sharing",
     "roleKnowledgeBase", "policiesKnowledgeBase",
     "roleLambdaKnowledgeBase", "policiesLambdaKnowledgeBase",
     "OpenSearchCollection", "encPolicy", "netPolicy", "dataAccessPolicy",
     "roleLambdaRag", "policiesLambdaRag", "lambdaKnowledgeBase"}

\* Mutant: the dependency on the data access policy is not declared.
dependenciesWithoutDataAccess(r) ==
    IF r = "distribution_sharing" THEN {"s3Bucket"}
    ELSE IF r = "policiesKnowledgeBase" THEN {"roleKnowledgeBase"}
    ELSE IF r = "policiesLambdaKnowledgeBase" THEN {"roleLambdaKnowledgeBase"}
    ELSE IF r = "OpenSearchCollection" THEN {"encPolicy", "netPolicy"}
    ELSE IF r = "policiesLambdaRag" THEN {"roleLambdaRag"}
    ELSE IF r = "lambdaKnowledgeBase" THEN {"roleLambdaRag", "distribution_sharing"}
    ELSE {}

\* The resources a resource depends on.
dependencies(r) ==
    IF r = "distribution_sharing" THEN {"s3Bucket"}
    ELSE IF r = "policiesKnowledgeBase" THEN {"roleKnowledgeBase"}
    ELSE IF r = "policiesLambdaKnowledgeBase" THEN {"roleLambdaKnowledgeBase"}
    ELSE IF r = "OpenSearchCollection"
         THEN {"encPolicy", "netPolicy", "dataAccessPolicy"}
    ELSE IF r = "policiesLambdaRag" THEN {"roleLambdaRag"}
    ELSE IF r = "lambdaKnowledgeBase" THEN {"roleLambdaRag", "distribution_sharing"}
    ELSE {}

InitDeploy ==
    /\ created = {}
    /\ store = feedStore(1, 1, 7, 0)
    /\ filterMode = "PICKUP_OFF"
    /\ now = 2
    /\ env \in {e \in Envs : e.openEdge /\ e.closeEdge /\ e.radiusEdge /\ e.gateOdAndMp}
    /\ calls = <<>>
    /\ candidates = <<>>
    /\ responses = <<>>
    /\ running = {}

\* The deployment creates a resource whose dependencies are all created.
Create(r) ==
    /\ r \notin created
    /\ dependencies(r) \subseteq created
    /\ created' = created \cup {r}
    /\ UNCHANGED <<store, filterMode, now, env, calls, candidates, responses, running>>

NextDeploy == \E r \in Resources : Create(r)

SpecDeploy == InitDeploy /\ [][NextDeploy]_vars

----
\* Properties of the exposure conditions (specification Spec).

\* The evaluations made with the pickup filter off.
OffCalls == IF filterMode = "PICKUP_OFF" THEN {calls[i] : i \in DOMAIN calls} ELSE {}

\* The two stores are the same but for their baropay.
DifferOnlyInBaropay(s1, s2) ==
    s1.baropay # s2.baropay /\ s2 = [s1 EXCEPT !.baropay = s2.baropay]

\* The two stores are the same but for their isUseSmartmenu.
DifferOnlyInSmartmenu(s1, s2) ==
    s1.isUseSmartmenu # s2.isUseSmartmenu
        /\ s2 = [s1 EXCEPT !.isUseSmartmenu = s2.isUseSmartmenu]

\* The user is outside the delivery radius of the store.
OutsideRadius(s) ==
    \/ s.distance > DeliveryRadius
    \/ s.distance = DeliveryRadius /\ ~env.radiusEdge

\* The store is one the OD conditions are applied to.
OdModel(s) ==
    \/ s.channelMode = "OD_ONLY"
    \/ s.channelMode = "OD_AND_MP" /\ env.gateOdAndMp

C2_NotOpenHidden ==
    \A c \in OffCalls : c.store.status # "OPEN" => ~c.result.displayable

\* A closed store that meets every other exposure condition is hidden.
C2_Witness ==
    \E c \in OffCalls :
        /\ c.store.status = "CLOSED"
        /\ c.store.ongoingChannels = {"BAEMIN_ONE_PLUS"}
        /\ c.store.channelMode = "MP_ONLY"
        /\ c.store.baropay
        /\ ~c.result.displayable

\* C6: with the pickup filter off, two evaluations of an MP_ONLY store that
\* differ only in baropay give the same displayable.
C6_MpOnlyIgnoresBaropay ==
    ( /\ filterMode = "PICKUP_OFF"
      /\ Len(calls) = 2
      /\ calls[1].store.channelMode = "MP_ONLY"
      /\ DifferOnlyInBaropay(calls[1].store, calls[2].store) )
        => calls[1].result.displayable = calls[2].result.displayable

\* The MP only store (status open, ongoing 오픈리스트) is exposed with baropay
\* true and with baropay false.
C6_Witness ==
    /\ filterMode = "PICKUP_OFF"
    /\ Len(calls) = 2
    /\ calls[1].store.channelMode = "MP_ONLY"
    /\ calls[1].store.ongoingChannels = {"OPEN_LIST"}
    /\ DifferOnlyInBaropay(calls[1].store, calls[2].store)
    /\ calls[1].result.displayable
    /\ calls[2].result.displayable

\* C7: with the pickup filter off, two evaluations of an OD_AND_MP store that
\* differ only in baropay give the same displayable.
C7_OdAndMpIgnoresBaropay ==
    ( /\ filterMode = "PICKUP_OFF"
      /\ Len(calls) = 2
      /\ calls[1].store.channelMode = "OD_AND_MP"
      /\ DifferOnlyInBaropay(calls[1].store, calls[2].store) )
        => calls[1].result.displayable = calls[2].result.displayable

\* The OD + MP store (status open, ongoing 배민1플러스) is exposed with baropay
\* true and with baropay false.
C7_Witness ==
    /\ filterMode = "PICKUP_OFF"
    /\ Len(calls) = 2
    /\ calls[1].store.channelMode = "OD_AND_MP"
    /\ calls[1].store.ongoingChannels = {"BAEMIN_ONE_PLUS"}
    /\ DifferOnlyInBaropay(calls[1].store, calls[2].store)
    /\ calls[1].result.displayable
    /\ calls[2].result.displayable

\* C8: with the pickup filter off, a store none of whose ongoing channels is
\* one of the four is never displayable, whatever its status, channel mode and
\* baropay.
C8_NoAllowedChannelHidden ==
    \A c \in OffCalls :
        c.store.ongoingChannels \cap AllowedChannels = {} => ~c.result.displayable

\* An open store whose only ongoing channel is none of the four is hidden.
C8_Witness ==
    \E c \in OffCalls :
        /\ c.store.ongoingChannels = OtherChannels
        /\ c.store.status = "OPEN"
        /\ c.store.channelMode = "MP_ONLY"
        /\ ~c.result.displayable

\* C9: with the pickup filter off, an OD store is never displayable when it
\* is not serviceable, when its center id differs from the requesting
\* context's, or when the user is outside its delivery radius, whatever the
\* status, channel and baropay conditions give; it is displayable only when
\* the three hold together with those conditions.
C9_OdServiceArea ==
    \A c \in OffCalls :
        OdModel(c.store) =>
            /\ ~c.store.serviceable => ~c.result.displayable
            /\ c.store.centerId # env.centerId => ~c.result.displayable
            /\ OutsideRadius(c.store) => ~c.result.displayable
            /\ c.result.displayable =>
                  /\ c.store.serviceable
                  /\ c.store.centerId = env.centerId
                  /\ ~OutsideRadius(c.store)
                  /\ c.store.status = "OPEN"
                  /\ c.store.ongoingChannels \cap AllowedChannels # {}
                  /\ c.store.channelMode = "OD_ONLY" => c.store.baropay

\* Scenario 4 of the test case: the OD store (status open, ongoing 울트라콜,
\* baropay true, serviceable, matching center) is hidden from a user beyond
\* the radius.
C9_Witness ==
    \E c \in OffCalls :
        /\ c.store.channelMode = "OD_ONLY"
        /\ c.store.status = "OPEN"
        /\ c.store.ongoingChannels = {"ULTRA_CALL"}
        /\ c.store.baropay
        /\ c.store.serviceable
        /\ c.store.centerId = env.centerId
        /\ c.store.distance > DeliveryRadius
        /\ ~c.result.displayable

\* C10: two evaluations of stores that are the same but for the value, or the
\* presence, of isUseSmartmenu give the same displayable.
C10_SmartmenuIgnored ==
    ( /\ Len(calls) = 2
      /\ DifferOnlyInSmartmenu(calls[1].store, calls[2].store) )
        => calls[1].result.displayable = calls[2].result.displayable

\* A store that is exposed while it uses the smart menu is exposed without
\* the field.
C10_Witness ==
    /\ Len(calls) = 2
    /\ filterMode = "PICKUP_OFF"
    /\ calls[1].store.isUseSmartmenu = "TRUE"
    /\ calls[2].store.isUseSmartmenu = "ABSENT"
    /\ DifferOnlyInSmartmenu(calls[1].store, calls[2].store)
    /\ calls[1].result.displayable
    /\ calls[2].result.displayable

----
\* Properties of the OD conditions over every store (specification
\* SpecServiceArea).

\* C18: the OD conditions reach no MP-only store: with the pickup filter
\* off, two evaluations of an MP-only store that is the same but for its
\* serviceable, its center id and its distance give the same displayable.
C18_MpOnlyNoServiceArea ==
    \A c1, c2 \in OffCalls :
        ( /\ c1.store.channelMode = "MP_ONLY"
          /\ c2.store = [c1.store EXCEPT !.serviceable = c2.store.serviceable,
                                         !.centerId = c2.store.centerId,
                                         !.distance = c2.store.distance] )
            => c1.result.displayable = c2.result.displayable

\* A displayable MP-only store stays displayable when it stops being
\* serviceable.
C18_Witness ==
    /\ filterMode = "PICKUP_OFF"
    /\ Len(calls) = 2
    /\ calls[1].store.channelMode = "MP_ONLY"
    /\ calls[1].store.serviceable
    /\ calls[1].result.displayable
    /\ calls[2].store = [calls[1].store EXCEPT !.serviceable = FALSE]
    /\ calls[2].result.displayable

----
\* Properties of the operating conditions (specification SpecOperation).

\* C3: finalOperation is true exactly when baropayLive is true and the
\* instant is within the store's operation time: strictly inside it the result
\* is baropayLive, outside it the result is false, and at the opening and at
\* the closing instant the result is baropayLive when that instant belongs to
\* the operation time and false when it does not.
C3_FinalOperationIff ==
    \A i \in DOMAIN calls :
        LET op == calls[i].store.operationTime
            live == calls[i].store.baropayLive
            fo == calls[i].result.finalOperation
            t == calls[i].now
        IN  /\ (op.open < t /\ t < op.close) => (fo <=> live)
            /\ (t < op.open \/ op.close < t) => ~fo
            /\ t = op.open => (fo <=> (live /\ env.openEdge))
            /\ t = op.close => (fo <=> (live /\ env.closeEdge))

\* Where the opening instant belongs to the operation time, a store whose
\* baropayLive is true is operating at that instant.
C3_Witness ==
    /\ Len(calls) = 1
    /\ calls[1].now = calls[1].store.operationTime.open
    /\ env.openEdge
    /\ calls[1].store.baropayLive
    /\ calls[1].result.finalOperation

C15_PreparingNotDisplayable ==
    \A i \in DOMAIN calls :
        (filterMode = "PICKUP_OFF" /\ ~calls[i].result.finalOperation)
            => ~calls[i].result.displayable

----
\* Properties of the search request (specification SpecRank).

Served == responses # <<>>

\* The stores of the first search result of the request, and its filter.
Out == responses[1].entries

OutMode == responses[1].filterMode

Score(i) == candidates[i].rankScore

Shown(i) == evaluate(candidates[i], OutMode, now, env).displayable

\* The rank of candidate i among all the candidates: one more than the number
\* of candidates with a higher score, or with the same score and arrived
\* before it.
RankOf(i) ==
    1 + Cardinality({j \in DOMAIN candidates :
                        Score(j) > Score(i) \/ (Score(j) = Score(i) /\ j < i)})

OutIds == {Out[k].storeId : k \in DOMAIN Out}

DistinctScores ==
    \A i, j \in DOMAIN candidates : i # j => Score(i) # Score(j)

\* C4: with the pickup filter off, for 30 displayable candidates of pairwise
\* distinct rankScore the result holds exactly the 25 candidates of highest
\* rankScore, in descending rankScore, and none of the 5 lowest.
C4_Top25Of30 ==
    ( /\ Served
      /\ OutMode = "PICKUP_OFF"
      /\ Len(candidates) = 30
      /\ \A i \in DOMAIN candidates : Shown(i)
      /\ DistinctScores )
        => /\ Len(Out) = 25
           /\ OutIds = {i \in DOMAIN candidates :
                           Cardinality({j \in DOMAIN candidates : Score(j) > Score(i)}) < 25}
           /\ \A k \in 1..(Len(Out) - 1) : Score(Out[k].storeId) > Score(Out[k + 1].storeId)
           /\ \A i \in DOMAIN candidates :
                 Cardinality({j \in DOMAIN candidates : Score(j) < Score(i)}) < 5
                     => i \notin OutIds

\* 30 displayable candidates that did not arrive in descending score were
\* served as 25.
C4_Witness ==
    /\ Served
    /\ OutMode = "PICKUP_OFF"
    /\ Len(candidates) = 30
    /\ \A i \in DOMAIN candidates : Shown(i)
    /\ DistinctScores
    /\ Score(1) < Score(2)
    /\ Score(3) < Score(30)
    /\ Len(Out) = 25

\* C5: with the pickup filter off, the ranks 1..N go over all the candidates
\* in score order, displayable or not, and the result is exactly the
\* candidates that are displayable and of rank 25 or less: it never holds more
\* than 25 entries, nor a candidate that is not displayable, nor one of rank
\* 26 or more, displayable or not.
C5_OutputIsDisplayableTop25 ==
    (Served /\ OutMode = "PICKUP_OFF") =>
        /\ Len(Out) <= 25
        /\ Cardinality(OutIds) = Len(Out)
        /\ OutIds = {i \in DOMAIN candidates : Shown(i) /\ RankOf(i) <= 25}
        /\ \A k \in DOMAIN Out :
              /\ Out[k].displayable
              /\ Out[k].storeId \in DOMAIN candidates
              /\ Shown(Out[k].storeId)
              /\ Out[k].rank = RankOf(Out[k].storeId)
              /\ Out[k].rank <= 25

\* A displayable candidate of rank 26 or more was dropped although a
\* candidate of a rank up to 25 was hidden and left its place empty.
C5_Witness ==
    /\ Served
    /\ OutMode = "PICKUP_OFF"
    /\ \E i \in DOMAIN candidates : Shown(i) /\ RankOf(i) > 25 /\ i \notin OutIds
    /\ \E j \in DOMAIN candidates : ~Shown(j) /\ RankOf(j) <= 25
    /\ Len(Out) < 25
    /\ Len(Out) > 0

\* C16: the entries of a result are in descending rankScore, two entries of
\* equal rankScore are in the order of their candidates in the input, and no
\* candidate has two entries: the entries are a subsequence of the stably
\* sorted candidates.
C16_StableDescending ==
    \A k \in DOMAIN responses :
        LET out == responses[k].entries
        IN  \A a, b \in DOMAIN out :
                a < b =>
                    /\ out[a].storeId # out[b].storeId
                    /\ Score(out[a].storeId) >= Score(out[b].storeId)
                    /\ Score(out[a].storeId) = Score(out[b].storeId)
                          => out[a].storeId < out[b].storeId
                    /\ RankOf(out[a].storeId) < RankOf(out[b].storeId)

\* A result holds two entries of equal rankScore, the earlier candidate
\* first, and leaves out a hidden candidate that is sorted between its entries.
C16_Witness ==
    /\ Served
    /\ \E a, b \in DOMAIN Out :
          /\ a < b
          /\ Score(Out[a].storeId) = Score(Out[b].storeId)
          /\ Out[a].storeId < Out[b].storeId
    /\ \E a \in DOMAIN Out, i \in DOMAIN candidates :
          /\ a > 1
          /\ i \notin OutIds
          /\ RankOf(Out[a - 1].storeId) < RankOf(i)
          /\ RankOf(i) < RankOf(Out[a].storeId)

\* C11: of two search results of the same candidates at the same instant
\* that differ only in the pickup filter, the one with the filter off holds the
\* CPC ads (those of its exposed stores that have a CPC ad set) and the one
\* with the filter on holds none; with the filter on there is none whatever
\* the stores and their fields are.
C11_CpcAdsGate ==
    \A k \in DOMAIN responses :
        LET r == responses[k]
            adStores == {r.entries[j].storeId : j \in DOMAIN r.entries}
                            \cap {candidates[i].storeId : i \in {i \in DOMAIN candidates : candidates[i].cpcAd}}
        IN  /\ r.filterMode = "PICKUP_ON" => r.cpcAds = <<>>
            /\ r.filterMode = "PICKUP_OFF" =>
                  /\ {r.cpcAds[j] : j \in DOMAIN r.cpcAds} = adStores
                  /\ adStores # {} => r.cpcAds # <<>>

\* The same stores, some with a CPC ad set, were exposed with the filter off
\* and then with the filter on: with the ads the first time, without the second.
C11_Witness ==
    /\ Len(responses) = 2
    /\ responses[1].filterMode = "PICKUP_OFF"
    /\ responses[2].filterMode = "PICKUP_ON"
    /\ responses[1].entries = responses[2].entries
    /\ responses[1].cpcAds # <<>>
    /\ responses[2].cpcAds = <<>>
    /\ \E j \in DOMAIN responses[2].entries :
          candidates[responses[2].entries[j].storeId].cpcAd

----
\* Properties of the validation (specification SpecValidation).

\* C12: the evaluation of a snapshot that came without channelMode,
\* ongoingChannels or operationTime returns a validation error that names a
\* field the snapshot is missing, and never a result with displayable or
\* finalOperation computed from a defaulted value.
C12_MissingFieldFails ==
    \A i \in DOMAIN calls :
        LET s == calls[i].store
            r == calls[i].result
        IN  IF s.missing # {}
            THEN /\ DOMAIN r = {"error", "field"}
                 /\ r.error = "ValidationError"
                 /\ r.field \in s.missing
            ELSE DOMAIN r = {"displayable", "finalOperation"}

\* A snapshot without operationTime, whose defaulted fields would make it
\* displayable and operating, was refused with the error that names the field.
C12_Witness ==
    /\ Len(calls) = 1
    /\ calls[1].store.missing = {"operationTime"}
    /\ evaluate(calls[1].store, filterMode, now, env)
          = [displayable |-> TRUE, finalOperation |-> TRUE]
    /\ calls[1].result = [error |-> "ValidationError", field |-> "operationTime"]

----
\* Properties of a batch with malformed candidates (specification SpecBatch).

Malformed == {i \in DOMAIN candidates : candidates[i].missing # {}}
WellFormed == DOMAIN candidates \ Malformed

\* The rank of a well-formed candidate among the well-formed candidates.
RankAmongWellFormed(i) ==
    1 + Cardinality({j \in WellFormed :
                        \/ Score(j) > Score(i)
                        \/ Score(j) = Score(i) /\ j < i})

\* C13: a malformed candidate does not abort the batch.  The result holds one
\* error for each malformed candidate, naming the candidate and a field it is
\* missing, and the entries are those of the well-formed candidates exactly as
\* if the malformed ones had not been in the batch: ranked among themselves,
\* the displayable ones of the first 25 ranks retained, in rank order.
C13_MalformedIsolated ==
    \A k \in DOMAIN responses :
        LET r == responses[k]
            shown(i) == evaluate(candidates[i], r.filterMode, now, env).displayable
        IN  /\ Len(r.errors) = Cardinality(Malformed)
            /\ {r.errors[j].storeId : j \in DOMAIN r.errors} = Malformed
            /\ \A j \in DOMAIN r.errors :
                  /\ r.errors[j].error = "ValidationError"
                  /\ r.errors[j].field \in candidates[r.errors[j].storeId].missing
                  /\ j > 1 => r.errors[j - 1].storeId < r.errors[j].storeId
            /\ {r.entries[j].storeId : j \in DOMAIN r.entries}
                  = {i \in WellFormed : shown(i) /\ RankAmongWellFormed(i) <= RankLimit}
            /\ \A j \in DOMAIN r.entries :
                  /\ r.entries[j].rank = RankAmongWellFormed(r.entries[j].storeId)
                  /\ r.entries[j].finalOperation
                        = evaluate(candidates[r.entries[j].storeId], r.filterMode, now, env).finalOperation
                  /\ j > 1 => r.entries[j - 1].rank < r.entries[j].rank

\* A batch of more than 25 well-formed candidates and several malformed ones
\* was served: the result holds the errors and 25 entries, one of them a
\* store that more than 24 candidates of the whole batch outscore.
C13_Witness ==
    /\ Served
    /\ Cardinality(Malformed) > 1
    /\ Len(Out) = RankLimit
    /\ Len(responses[1].errors) = Cardinality(Malformed)
    /\ \E j \in DOMAIN Out : RankOf(Out[j].storeId) > RankLimit

----
\* Properties of the concurrent evaluation (specification SpecConcurrent).

\* C17: whatever the interleaving and the order of completion of the
\* evaluations of a batch, the result of the sort-and-cap pass is the result
\* of evaluating the candidates one after another in input order, and every
\* completed evaluation is the evaluation of its own candidate alone.
C17_OrderOfCompletionIrrelevant ==
    /\ \A k \in DOMAIN calls :
          calls[k].result = evaluateValidated(calls[k].store, filterMode, now, env)
    /\ \A k \in DOMAIN responses :
          responses[k] = response(candidates, filterMode, now, env)

\* The result was made from evaluations that completed in another order than
\* that of the input, two of them of displayable candidates of equal rankScore
\* of which the later one in the input completed first.
C17_Witness ==
    /\ Served
    /\ \E a, b \in DOMAIN calls :
          /\ a < b
          /\ calls[a].store.storeId > calls[b].store.storeId
          /\ calls[a].store.rankScore = calls[b].store.rankScore
          /\ {calls[a].store.storeId, calls[b].store.storeId} \subseteq OutIds

----
\* Properties of the deployment (specification SpecDeploy).

SecurityPolicies == {"encPolicy", "netPolicy", "dataAccessPolicy"}

\* C19: in every order of creation the dependencies allow, the step that
\* creates the OpenSearch Serverless collection is taken with the encryption
\* policy, the network policy and the data access policy already created.
C19_CollectionAfterPolicies ==
    [][("OpenSearchCollection" \in created' /\ "OpenSearchCollection" \notin created)
          => SecurityPolicies \subseteq created]_vars

\* The collection is created, after its three policies, while other
\* resources of the stack are still to be created.
C19_Witness ==
    /\ "OpenSearchCollection" \in created
    /\ SecurityPolicies \subseteq created
    /\ "s3Bucket" \notin created
    /\ "lambdaKnowledgeBase" \notin created

====
